---- MODULE Spec2Model ----
(***************************************************************************)
(* A model of the whatwg-datetime parsers (crates/datetime) and of the     *)
(* cursor primitives of whatwg-infra (crates/infra/src/strings.rs).        *)
(*                                                                         *)
(* A Rust &str is modelled as a sequence of characters; a character is a   *)
(* one-character TLA+ string, except the two non-ASCII representatives     *)
(* "U+00E9" (2 bytes in UTF-8) and "U+20AC" (3 bytes).  str::len() is the  *)
(* BYTE length, chars().nth(i) is a CHARACTER index, &s[a..b] is a BYTE    *)
(* slice that aborts off a character boundary: the three are kept apart.   *)
(*                                                                         *)
(* An Option<T> is None, Some(v) or, when the call aborts (a panic from    *)
(* unwrap() or from a byte slice), Panic.                                  *)
(***************************************************************************)
EXTENDS Integers, Sequences, FiniteSets, TLC

VARIABLES
    pc,          \* "call" before the function runs, "return" after it returned
    fn,          \* the public function that is called
    s,           \* its string argument
    start,       \* the cursor handed to a component parser (0 for the others)
    args,        \* the numbers handed to a constructor
    position,    \* the cursor when the function returns
    result,      \* what the function returned
    strictLeap   \* the linked chrono takes a leap second in second 59 only

vars == <<pc, fn, s, start, args, position, result, strictLeap>>

-----------------------------------------------------------------------------
(* Bounds of the explored inputs *)

\* longest year digit run written in an input (i32 holds at most 10 digits)
MaxYearDigits == 11
\* longest seconds fraction written in an input
MaxFracDigits == 4
\* largest number of characters standing before the cursor of a component call
MaxStart == 1
\* longest string collect_codepoints and skip_codepoints are called on
MaxChars == 3

-----------------------------------------------------------------------------
(* Option values *)

None == [tag |-> "None"]
Panic == [tag |-> "Panic"]
Some(v) == [tag |-> "Some", val |-> v]
IsSome(o) == o.tag = "Some"

-----------------------------------------------------------------------------
(* Characters and strings *)

TOKEN_ABBR_WEEK == "W"
TOKEN_HYPHEN == "-"
TOKEN_COLON == ":"
TOKEN_T == "T"
TOKEN_Z == "Z"
TOKEN_PLUS == "+"
TOKEN_MINUS == "-"
TOKEN_DOT == "."
TOKEN_SPACE == " "

AsciiDigits == {"0", "1", "2", "3", "4", "5", "6", "7", "8", "9"}

DigitVal(c) ==
    CASE c = "0" -> 0 [] c = "1" -> 1 [] c = "2" -> 2 [] c = "3" -> 3
      [] c = "4" -> 4 [] c = "5" -> 5 [] c = "6" -> 6 [] c = "7" -> 7
      [] c = "8" -> 8 [] c = "9" -> 9

\* char::len_utf8: the number of bytes of a character
len_utf8(c) == IF c = "U+00E9" THEN 2 ELSE IF c = "U+20AC" THEN 3 ELSE 1

\* str::len(): the number of BYTES of the string
RECURSIVE len(_)
len(str) == IF str = <<>> THEN 0 ELSE len_utf8(Head(str)) + len(Tail(str))

\* byte offset of the character at character index i (0-based)
ByteOffset(str, i) == len(SubSeq(str, 1, i))

\* str::is_char_boundary
is_char_boundary(str, b) == \E i \in 0..Len(str) : ByteOffset(str, i) = b

\* s.chars().nth(i): the character at CHARACTER index i, if any
chars_nth(str, i) == IF i < Len(str) THEN Some(str[i + 1]) ELSE None

\* &s[a..b]: the BYTE slice; aborts when a or b is not a character boundary
\* or is out of range
ByteSlice(str, a, b) ==
    IF a <= b /\ is_char_boundary(str, a) /\ is_char_boundary(str, b)
    THEN LET i == CHOOSE i \in 0..Len(str) : ByteOffset(str, i) = a
             j == CHOOSE j \in 0..Len(str) : ByteOffset(str, j) = b
         IN  Some(SubSeq(str, i + 1, j))
    ELSE Panic

-----------------------------------------------------------------------------
(* crates/infra/src/strings.rs *)

\* a faulty variant: the character that ends the run is passed over as well,
\* whether or not there is one
skip_codepoints_one_more(str, pos, predicate) ==
    IF str = <<>> \/ pos >= len(str)
    THEN pos
    ELSE IF pos >= Len(str)
         THEN pos
         ELSE 1 + CHOOSE p \in pos..Len(str) :
                     /\ \A k \in pos..(p - 1) : str[k + 1] \in predicate
                     /\ (p = Len(str) \/ str[p + 1] \notin predicate)

\* the cursor after skip_codepoints(s, position, predicate); the predicate is
\* given as the set of the characters it holds of
skip_codepoints(str, pos, predicate) ==
    IF str = <<>> \/ pos >= len(str)
    THEN pos
    ELSE IF pos >= Len(str)
         THEN pos   \* chars().skip(position) is exhausted: the loop body never runs
         ELSE CHOOSE p \in pos..Len(str) :
                 /\ \A k \in pos..(p - 1) : str[k + 1] \in predicate
                 /\ (p = Len(str) \/ str[p + 1] \notin predicate)

\* the end of collect_codepoints: the byte slice from the starting position to
\* the cursor p that skip_codepoints left
CollectedSlice(str, starting_position, p) ==
    [val |-> ByteSlice(str, starting_position, p), pos |-> p]

\* collect_codepoints(s, position, predicate): the collected string (or Panic)
\* and the cursor afterwards
collect_codepoints(str, pos, predicate) ==
    IF str = <<>> \/ pos >= len(str)
    THEN [val |-> Some(<<>>), pos |-> pos]
    ELSE CollectedSlice(str, pos, skip_codepoints(str, pos, predicate))

-----------------------------------------------------------------------------
(* str::parse::<i32>() and str::parse::<u32>(): an optional sign ('+', and  *)
(* for i32 also '-') and one or more ASCII digits; Err on the empty        *)
(* string, on a lone sign, on any other character and on overflow of the   *)
(* integer type.                                                           *)

I32_MAX == 2147483647

\* a u32 of 2^31 or more: it is only ever compared with bounds below 2^31,
\* so all such values are represented by this one
U32_BIG == 2147483647

RECURSIVE ParseDigits(_, _, _)
\* the value of a digit run is acc when big is FALSE and 2^31 + acc when big
\* is TRUE; None when a character is not a digit or the value exceeds a u32
ParseDigits(str, acc, big) ==
    IF str = <<>> THEN Some([v |-> acc, big |-> big])
    ELSE IF Head(str) \notin AsciiDigits THEN None
    ELSE LET d == DigitVal(Head(str))
         IN  IF big THEN None   \* ten times 2^31 exceeds a u32
             ELSE IF acc < 214748364 \/ (acc = 214748364 /\ d <= 7)
                  THEN ParseDigits(Tail(str), acc * 10 + d, FALSE)
                  ELSE IF acc < 429496729 \/ (acc = 429496729 /\ d <= 5)
                       THEN ParseDigits(Tail(str), (acc - 214748365) * 10 + (d + 2), TRUE)
                       ELSE None

parse_u32(str) ==
    LET digits == IF str # <<>> /\ Head(str) = "+" THEN Tail(str) ELSE str
        r == ParseDigits(digits, 0, FALSE)
    IN  IF digits = <<>> \/ ~ IsSome(r) THEN None
        ELSE Some(IF r.val.big THEN U32_BIG ELSE r.val.v)

parse_i32(str) ==
    LET signed == str # <<>> /\ Head(str) \in {"+", "-"}
        digits == IF signed THEN Tail(str) ELSE str
        r == ParseDigits(digits, 0, FALSE)
    IN  IF digits = <<>> \/ ~ IsSome(r) THEN None
        ELSE IF signed /\ Head(str) = "-"
             THEN IF ~ r.val.big THEN Some(0 - r.val.v)
                  ELSE IF r.val.v = 0 THEN Some((0 - I32_MAX) - 1)
                  ELSE None
             ELSE IF r.val.big THEN None ELSE Some(r.val.v)

-----------------------------------------------------------------------------
(* chrono, as far as the parsers use it *)

\* NaiveDate::MIN and NaiveDate::MAX lie in these years
CHRONO_MIN_YEAR == -262143
CHRONO_MAX_YEAR == 262142

IsLeapYear(year) == year % 400 = 0 \/ (year % 4 = 0 /\ year % 100 # 0)

DaysInMonth(year, month) ==
    IF month \in {1, 3, 5, 7, 8, 10, 12} THEN 31
    ELSE IF month \in {4, 6, 9, 11} THEN 30
    ELSE IF IsLeapYear(year) THEN 29 ELSE 28

\* NaiveDate::from_ymd_opt
from_ymd_opt(year, month, day) ==
    IF /\ year \in CHRONO_MIN_YEAR..CHRONO_MAX_YEAR
       /\ month \in 1..12
       /\ day \in 1..DaysInMonth(year, month)
    THEN Some([year |-> year, month |-> month, day |-> day])
    ELSE None

\* NaiveDate::weekday of January 1: 0 is Sunday, ..., 3 Wednesday, 4 Thursday
WeekdayOfJan1(year) ==
    (1 + 5 * ((year - 1) % 4) + 4 * ((year - 1) % 100) + 6 * ((year - 1) % 400)) % 7

\* NaiveTime::from_hms_milli_opt.  A NaiveTime keeps a leap second as a
\* sub-second part of 1000..1999 ms; releases of chrono differ on whether a
\* leap second is accepted only in second 59 (strictLeap) or in any second.
from_hms_milli_opt(hour, min, sec, milli) ==
    IF \/ hour >= 24 \/ min >= 60 \/ sec >= 60
       \/ milli >= 2000
       \/ (strictLeap /\ milli >= 1000 /\ sec # 59)
    THEN None
    ELSE Some([hour |-> hour, minute |-> min, second |-> sec, milli |-> milli])

MS_PER_DAY == 86400000

\* NaiveTime::overflowing_sub_signed(Duration::minutes(minutes)).0 : the time
\* of day wrapped around midnight (the number of wrapped seconds, .1, is the
\* second component of the pair)
overflowing_sub_signed(time, minutes) ==
    LET secs  == time.hour * 3600 + time.minute * 60 + time.second
        rhs   == (0 - minutes) * 60000   \* the subtraction adds the negation
        \* a leap second is first brought back to a whole second
        leap  == time.milli >= 1000
        rfrac == 2000 - time.milli
        secs1 == IF leap /\ rhs >= rfrac THEN secs + 1 ELSE secs
        frac1 == IF leap /\ (rhs >= rfrac \/ rhs < 0 - time.milli) THEN 0 ELSE time.milli
        rhs1  == IF leap /\ rhs >= rfrac THEN rhs - rfrac
                 ELSE IF leap /\ rhs < 0 - time.milli THEN rhs + time.milli
                 ELSE rhs
        total == secs1 * 1000 + frac1 + rhs1
        inday == total % MS_PER_DAY
        wrapped == (total - inday) \div MS_PER_DAY
    IN  IF leap /\ ~ (rhs >= rfrac \/ rhs < 0 - time.milli)
        THEN <<[time EXCEPT !.milli = time.milli + rhs], 0>>
        ELSE <<[hour   |-> inday \div 3600000,
                minute |-> (inday \div 60000) % 60,
                second |-> (inday \div 1000) % 60,
                milli  |-> inday % 1000],
               (0 - wrapped) * 86400>>

-----------------------------------------------------------------------------
(* crates/datetime/src/utils.rs *)

is_valid_month(month) == month \in 1..12

is_valid_hour(hour) == hour \in 0..23

is_valid_min_or_sec(val) == val \in 0..59

collect_ascii_digits(str, pos) == collect_codepoints(str, pos, AsciiDigits)

\* a faulty variant: the leap year rule without the centuries
max_days_every_fourth_year(month, year) ==
    IF month \in {1, 3, 5, 7, 8, 10, 12} THEN Some(31)
    ELSE IF month \in {4, 6, 9, 11} THEN Some(30)
    ELSE IF month = 2
         THEN IF year % 4 = 0 THEN Some(29) ELSE Some(28)
         ELSE None

max_days_in_month_year(month, year) ==
    IF month \in {1, 3, 5, 7, 8, 10, 12} THEN Some(31)
    ELSE IF month \in {4, 6, 9, 11} THEN Some(30)
    ELSE IF month = 2
         THEN IF year % 400 = 0 \/ (year % 4 = 0 /\ year % 100 # 0)
              THEN Some(29) ELSE Some(28)
         ELSE None

\* aborts in unwrap() when chrono cannot represent January 1 of the year
week_number_of_year(year) ==
    IF ~ IsSome(from_ymd_opt(year, 1, 1)) THEN Panic
    ELSE LET weekday == WeekdayOfJan1(year)
         IN  IF weekday = 4 THEN Some(53)
             ELSE IF weekday = 3
                  THEN IF year % 400 = 0 \/ (year % 4 = 0 /\ year % 100 # 0)
                       THEN Some(53) ELSE Some(52)
                  ELSE Some(52)

-----------------------------------------------------------------------------
(* crates/datetime/src/components.  A function is written as a chain of    *)
(* definitions, one per stretch of its body: each takes what the stretch   *)
(* before it computed (c: what collect_codepoints handed back, and so on)  *)
(* and the last of the chain carries the name of the function.             *)

\* what a component parser hands back: its Option and the cursor it leaves
Ret(v, p) == [val |-> v, pos |-> p]

\* the guard of a single-character delimiter step:
\*   !(*position > s.len() || s.chars().nth(*position) != Some(token))
AtToken(str, pos, tokens) ==
    /\ ~ (pos > len(str))
    /\ \E tk \in tokens : chars_nth(str, pos) = Some(tk)

\* mod.rs: parse_format(s, parse_fn), where parsed is what parse_fn(s, &mut
\* position) handed back from position 0: its Option and the cursor it left
parse_format(str, parsed) ==
    IF ~ IsSome(parsed.val) THEN parsed   \* `?` hands None on; a panic unwinds
    ELSE IF parsed.pos < len(str) THEN Ret(None, parsed.pos)
    ELSE parsed

\* mod.rs: collect_day_and_validate, the range check of the parsed day
validate_day(day, max_days, pos) ==
    IF ~ IsSome(day) THEN Ret(None, pos)
    ELSE IF ~ IsSome(max_days) THEN Ret(Panic, pos)   \* unwrap() of None
    ELSE IF ~ (day.val \in 1..max_days.val) THEN Ret(None, pos)
    ELSE Ret(Some(day.val), pos)

\* mod.rs: collect_day_and_validate, after the digits were collected
validate_day_digits(c, month) ==
    IF c.val = Panic THEN Ret(Panic, c.pos)
    ELSE IF len(c.val.val) # 2 THEN Ret(None, c.pos)
    ELSE validate_day(parse_u32(c.val.val), max_days_in_month_year(month, 4), c.pos)

\* mod.rs: collect_day_and_validate(s, position, month)
collect_day_and_validate(str, pos, month) ==
    validate_day_digits(collect_ascii_digits(str, pos), month)

\* mod.rs: collect_month_and_validate, the range check of the parsed month
validate_month(month, pos) ==
    IF ~ IsSome(month) THEN Ret(None, pos)
    ELSE IF ~ is_valid_month(month.val) THEN Ret(None, pos)
    ELSE Ret(Some(month.val), pos)

\* mod.rs: collect_month_and_validate, after the digits were collected
validate_month_digits(c) ==
    IF c.val = Panic THEN Ret(Panic, c.pos)
    ELSE IF len(c.val.val) # 2 THEN Ret(None, c.pos)
    ELSE validate_month(parse_u32(c.val.val), c.pos)

\* mod.rs: collect_month_and_validate(s, position)
collect_month_and_validate(str, pos) == validate_month_digits(collect_ascii_digits(str, pos))

\* month.rs: YearMonth::new_opt(year, month)
YearMonth_new_opt(year, month) ==
    IF year = 0 THEN None
    ELSE IF ~ is_valid_month(month) THEN None
    ELSE Some([year |-> year, month |-> month])

\* month.rs: parse_month_component, the YearMonth built from year and month m
month_result(year, m) ==
    IF ~ IsSome(m.val) THEN m
    ELSE Ret(Some([year |-> year, month |-> m.val.val]), m.pos)

\* month.rs: parse_month_component, after the year was parsed
month_after_year(str, year, pos) ==
    IF ~ IsSome(year) THEN Ret(None, pos)
    ELSE IF year.val = 0 THEN Ret(None, pos)
    ELSE IF ~ AtToken(str, pos, {TOKEN_HYPHEN}) THEN Ret(None, pos)
    ELSE month_result(year.val, collect_month_and_validate(str, pos + 1))

\* month.rs: parse_month_component, after the year digits were collected
month_year_digits(str, c) ==
    IF c.val = Panic THEN Ret(Panic, c.pos)
    ELSE IF len(c.val.val) < 4 THEN Ret(None, c.pos)
    ELSE month_after_year(str, parse_i32(c.val.val), c.pos)

\* month.rs: parse_month_component(s, position)
parse_month_component(str, pos) == month_year_digits(str, collect_ascii_digits(str, pos))

parse_month(str) == parse_format(str, parse_month_component(str, 0)).val

\* a faulty variant: month and day are handed over in the wrong order
date_result_day_first(year_month, d) ==
    IF ~ IsSome(d.val) THEN d
    ELSE Ret(from_ymd_opt(year_month.year, d.val.val, year_month.month), d.pos)

\* date.rs: parse_date_component, the NaiveDate built from the parts
date_result(year_month, d) ==
    IF ~ IsSome(d.val) THEN d
    ELSE Ret(from_ymd_opt(year_month.year, year_month.month, d.val.val), d.pos)

\* date.rs: parse_date_component, after the year-month was parsed
date_after_month(str, ym) ==
    IF ~ IsSome(ym.val) THEN ym
    ELSE IF ~ AtToken(str, ym.pos, {TOKEN_HYPHEN}) THEN Ret(None, ym.pos)
    ELSE date_result(ym.val.val,
                     collect_day_and_validate(str, ym.pos + 1, ym.val.val.month))

\* date.rs: parse_date_component(s, position)
parse_date_component(str, pos) == date_after_month(str, parse_month_component(str, pos))

parse_date(str) == parse_format(str, parse_date_component(str, 0)).val

\* time.rs: has_at_least_n_instances(s, c, n)
has_at_least_n_instances(str, c, n) ==
    Cardinality({i \in 1..Len(str) : str[i] = c}) >= n

\* the index of the first '.' of a string that has one
FirstDot(str) ==
    CHOOSE i \in 1..Len(str) : str[i] = TOKEN_DOT /\ \A k \in 1..(i - 1) : str[k] # TOKEN_DOT

HasDot(str) == \E i \in 1..Len(str) : str[i] = TOKEN_DOT

\* str::split(TOKEN_DOT): the first part
SplitFirst(str) == IF HasDot(str) THEN SubSeq(str, 1, FirstDot(str) - 1) ELSE str

\* str::split(TOKEN_DOT): the second part, if there is one
SplitSecond(str) ==
    IF HasDot(str)
    THEN Some(SplitFirst(SubSeq(str, FirstDot(str) + 1, Len(str))))
    ELSE None

\* parts.get(1).unwrap_or(&"0")
SecondOrZero(part) == IF IsSome(part) THEN part.val ELSE <<"0">>

\* .parse().unwrap_or(0)
ParsedOrZero(n) == IF IsSome(n) THEN n.val ELSE 0

\* a faulty variant: a fraction of one or two digits is padded on the right
\* to three digits, so that '.9' is 900 milliseconds
parse_seconds_milliseconds_padded(str) ==
    <<ParsedOrZero(parse_u32(SplitFirst(str))),
      ParsedOrZero(parse_u32(SecondOrZero(SplitSecond(str))))
        * (IF Len(SecondOrZero(SplitSecond(str))) = 1 THEN 100
           ELSE IF Len(SecondOrZero(SplitSecond(str))) = 2 THEN 10 ELSE 1)>>

\* time.rs: parse_seconds_milliseconds(s)
parse_seconds_milliseconds(str) ==
    <<ParsedOrZero(parse_u32(SplitFirst(str))),
      ParsedOrZero(parse_u32(SecondOrZero(SplitSecond(str))))>>

\* time.rs: parse_time_component, the range check of the seconds and the
\* NaiveTime built from the parts (sm: seconds and milliseconds)
time_result(hour, minute, sm, pos) ==
    IF ~ is_valid_min_or_sec(sm[1]) THEN Ret(None, pos)
    ELSE Ret(from_hms_milli_opt(hour, minute, sm[1], sm[2]), pos)

\* time.rs: parse_time_component, the checks on the collected seconds part
time_seconds_checks(str, c, hour, minute) ==
    IF c.val = Panic THEN Ret(Panic, c.pos)
    ELSE IF \/ len(c.val.val) = 3
            \/ (len(c.val.val) > 3 /\ chars_nth(c.val.val, 2) # Some(TOKEN_DOT))
            \/ has_at_least_n_instances(str, TOKEN_DOT, 2)
         THEN Ret(None, c.pos)
         ELSE time_result(hour, minute, parse_seconds_milliseconds(c.val.val), c.pos)

\* time.rs: parse_time_component, after the minutes were validated
time_after_minute(str, pos, hour, minute) ==
    IF pos < len(str) /\ chars_nth(str, pos) = Some(TOKEN_COLON)
    THEN IF pos + 1 >= len(str) THEN Ret(None, pos + 1)
         ELSE time_seconds_checks(str,
                  collect_codepoints(str, pos + 1, AsciiDigits \cup {TOKEN_DOT}),
                  hour, minute)
    ELSE Ret(from_hms_milli_opt(hour, minute, 0, 0), pos)

\* time.rs: parse_time_component, the range check of the parsed minute
time_minute(str, minute, pos, hour) ==
    IF ~ IsSome(minute) THEN Ret(None, pos)
    ELSE IF ~ is_valid_min_or_sec(minute.val) THEN Ret(None, pos)
    ELSE time_after_minute(str, pos, hour, minute.val)

\* time.rs: parse_time_component, after the minute digits were collected
time_minute_digits(str, m, hour) ==
    IF m.val = Panic THEN Ret(Panic, m.pos)
    ELSE IF len(m.val.val) # 2 THEN Ret(None, m.pos)
    ELSE time_minute(str, parse_u32(m.val.val), m.pos, hour)

\* time.rs: parse_time_component, the range check of the parsed hour and the
\* ':' after it
time_hour(str, hour, pos) ==
    IF ~ IsSome(hour) THEN Ret(None, pos)
    ELSE IF ~ is_valid_hour(hour.val) THEN Ret(None, pos)
    ELSE IF ~ AtToken(str, pos, {TOKEN_COLON}) THEN Ret(None, pos)
    ELSE time_minute_digits(str, collect_ascii_digits(str, pos + 1), hour.val)

\* time.rs: parse_time_component, after the hour digits were collected
time_hour_digits(str, h) ==
    IF h.val = Panic THEN Ret(Panic, h.pos)
    ELSE IF len(h.val.val) # 2 THEN Ret(None, h.pos)
    ELSE time_hour(str, parse_u32(h.val.val), h.pos)

\* time.rs: parse_time_component(s, position)
parse_time_component(str, pos) == time_hour_digits(str, collect_ascii_digits(str, pos))

parse_time(str) == parse_format(str, parse_time_component(str, 0)).val

\* timezone_offset.rs: TimeZoneOffset::new
TimeZoneOffset_new(hour, minute) == [hour |-> hour, minute |-> minute]

\* timezone_offset.rs: TimeZoneOffset::new_opt(hours, minutes)
TimeZoneOffset_new_opt(hours, minutes) ==
    IF ~ (hours \in -23..23) THEN None
    ELSE IF ~ (minutes \in 0..59) THEN None
    ELSE Some(TimeZoneOffset_new(hours, minutes))

\* a faulty range check on the hours: the upper end is taken one too far
OffsetHoursUpTo24(hours) == hours \in 0..24

\* timezone_offset.rs: the range check on the unsigned hours
OffsetHoursInRange(hours) == hours \in 0..23

\* timezone_offset.rs: the range check on the unsigned minutes
OffsetMinutesInRange(minutes) == minutes \in 0..59

\* a faulty variant: the sign is applied to the hours only
ApplySignToHours(sign, hours, minutes) ==
    IF sign = TOKEN_MINUS
    THEN TimeZoneOffset_new(hours * (-1), minutes)
    ELSE TimeZoneOffset_new(hours, minutes)

\* timezone_offset.rs: the sign is applied to both fields
ApplySign(sign, hours, minutes) ==
    IF sign = TOKEN_MINUS
    THEN TimeZoneOffset_new(hours * (-1), minutes * (-1))
    ELSE TimeZoneOffset_new(hours, minutes)

\* timezone_offset.rs: the range checks and the sign, after hours and minutes
\* were read (hours and minutes are the results of parse::<i32>())
offset_result(sign, hours, minutes, pos) ==
    IF ~ IsSome(hours) \/ ~ IsSome(minutes) THEN Ret(Panic, pos)   \* unwrap() of an Err
    ELSE IF ~ OffsetHoursInRange(hours.val) THEN Ret(None, pos)
    ELSE IF ~ OffsetMinutesInRange(minutes.val) THEN Ret(None, pos)
    ELSE Ret(Some(ApplySign(sign, hours.val, minutes.val)), pos)

\* timezone_offset.rs: the HH:MM form, after the minute digits were collected
offset_minute_digits(sign, hours, m) ==
    IF m.val = Panic THEN Ret(Panic, m.pos)
    ELSE IF len(m.val.val) # 2 THEN Ret(None, m.pos)
    ELSE offset_result(sign, hours, parse_i32(m.val.val), m.pos)

\* timezone_offset.rs: the HH:MM form, after the two hour digits were parsed
offset_colon(str, sign, hours, pos) ==
    IF ~ IsSome(hours) THEN Ret(Panic, pos)   \* unwrap() of an Err
    ELSE IF ~ AtToken(str, pos, {TOKEN_COLON}) THEN Ret(None, pos)
    ELSE offset_minute_digits(sign, hours, collect_ascii_digits(str, pos + 1))

\* timezone_offset.rs: after the digits behind the sign were collected
offset_digits(str, sign, c) ==
    IF c.val = Panic THEN Ret(Panic, c.pos)
    ELSE IF len(c.val.val) = 2
         THEN offset_colon(str, sign, parse_i32(c.val.val), c.pos)
         ELSE IF len(c.val.val) = 4
              THEN offset_result(sign, parse_i32(SubSeq(c.val.val, 1, 2)),
                                 parse_i32(SubSeq(c.val.val, 3, Len(c.val.val))), c.pos)
              ELSE Ret(None, c.pos)

\* a faulty variant: a character that starts no offset is a failure
offset_match_requires_offset(str, pos, char_at) ==
    IF char_at = Some(TOKEN_Z) THEN Ret(Some(TimeZoneOffset_new(0, 0)), pos + 1)
    ELSE IF char_at = Some(TOKEN_PLUS) \/ char_at = Some(TOKEN_MINUS)
         THEN offset_digits(str, char_at.val, collect_ascii_digits(str, pos + 1))
         ELSE Ret(None, pos)

\* a faulty variant: the 'Z' is recognised but the cursor is left on it
offset_match_z_not_consumed(str, pos, char_at) ==
    IF char_at = Some(TOKEN_Z) THEN Ret(Some(TimeZoneOffset_new(0, 0)), pos)
    ELSE IF char_at = Some(TOKEN_PLUS) \/ char_at = Some(TOKEN_MINUS)
         THEN offset_digits(str, char_at.val, collect_ascii_digits(str, pos + 1))
         ELSE Ret(Some(TimeZoneOffset_new(0, 0)), pos)

\* timezone_offset.rs: the match on the character at the cursor
offset_match(str, pos, char_at) ==
    IF char_at = Some(TOKEN_Z) THEN Ret(Some(TimeZoneOffset_new(0, 0)), pos + 1)
    ELSE IF char_at = Some(TOKEN_PLUS) \/ char_at = Some(TOKEN_MINUS)
         THEN offset_digits(str, char_at.val, collect_ascii_digits(str, pos + 1))
         ELSE Ret(Some(TimeZoneOffset_new(0, 0)), pos)

\* timezone_offset.rs: parse_timezone_offset_component(s, position)
parse_timezone_offset_component(str, pos) == offset_match(str, pos, chars_nth(str, pos))

parse_timezone_offset(str) == parse_format(str, parse_timezone_offset_component(str, 0)).val

\* week.rs: YearWeek::new_opt, the upper bound of the week
week_in_year(year, week, max_weeks) ==
    IF ~ IsSome(max_weeks) THEN max_weeks
    ELSE IF week > max_weeks.val THEN None
    ELSE Some([year |-> year, week |-> week])

\* week.rs: YearWeek::new_opt(year, week)
YearWeek_new_opt(year, week) ==
    IF year <= 0 THEN None
    ELSE IF week < 1 THEN None
    ELSE week_in_year(year, week, week_number_of_year(year))

\* week.rs: parse_week, the range check of the week (step 7)
week_result(year, week, max_weeks, pos) ==
    IF ~ IsSome(week) THEN Ret(Panic, pos)   \* unwrap() of an Err
    ELSE IF ~ IsSome(max_weeks) THEN Ret(max_weeks, pos)
    ELSE IF week.val < 1 \/ week.val > max_weeks.val THEN Ret(None, pos)
    ELSE Ret(Some([year |-> year, week |-> week.val]), pos)

\* week.rs: parse_week, after the week digits were collected (step 7)
week_digits(year, w) ==
    IF w.val = Panic THEN Ret(Panic, w.pos)
    ELSE IF len(w.val.val) # 2 THEN Ret(None, w.pos)
    ELSE week_result(year, parse_u32(w.val.val), week_number_of_year(year), w.pos)

\* week.rs: parse_week, after the year was parsed (steps 4 to 6)
week_after_year(input, year, pos) ==
    IF ~ IsSome(year) THEN Ret(Panic, pos)   \* unwrap() of an Err
    ELSE IF year.val <= 0 THEN Ret(None, pos)
    ELSE IF ~ AtToken(input, pos, {TOKEN_HYPHEN}) THEN Ret(None, pos)
    ELSE IF ~ AtToken(input, pos + 1, {TOKEN_ABBR_WEEK}) THEN Ret(None, pos + 1)
    ELSE week_digits(year.val, collect_ascii_digits(input, pos + 2))

\* week.rs: parse_week, after the year digits were collected (step 3)
week_year_digits(input, y) ==
    IF y.val = Panic THEN Ret(Panic, y.pos)
    ELSE week_after_year(input, parse_i32(y.val.val), y.pos)

\* week.rs: parse_week(input), with the cursor it stops at
parse_week_at(input) == week_year_digits(input, collect_ascii_digits(input, 0))

parse_week(input) == parse_week_at(input).val

\* yearless_date.rs: YearlessDate::new_opt(month, day)
YearlessDate_new_opt(month, day) ==
    IF ~ is_valid_month(month) THEN None
    ELSE IF month = 2 /\ day > 29 THEN None
    ELSE IF month \in {4, 6, 9, 11} /\ day > 30 THEN None
    ELSE IF month \notin {2, 4, 6, 9, 11} /\ day > 31 THEN None
    ELSE Some([month |-> month, day |-> day])

\* yearless_date.rs: parse_yearless_date_component, the YearlessDate built
yearless_result(month, d) ==
    IF ~ IsSome(d.val) THEN d
    ELSE Ret(Some([month |-> month, day |-> d.val.val]), d.pos)

\* yearless_date.rs: parse_yearless_date_component, after the month was parsed
yearless_after_month(str, m) ==
    IF ~ IsSome(m.val) THEN m
    ELSE IF ~ AtToken(str, m.pos, {TOKEN_HYPHEN}) THEN Ret(None, m.pos)
    ELSE yearless_result(m.val.val, collect_day_and_validate(str, m.pos + 1, m.val.val))

\* a faulty variant: any number of leading hyphens is let through
yearless_hyphens_any_count(str, c) ==
    IF c.val = Panic THEN Ret(Panic, c.pos)
    ELSE yearless_after_month(str, collect_month_and_validate(str, c.pos))

\* yearless_date.rs: parse_yearless_date_component, after the hyphens were
\* collected
yearless_hyphens(str, c) ==
    IF c.val = Panic THEN Ret(Panic, c.pos)
    ELSE IF len(c.val.val) \notin {0, 2} THEN Ret(None, c.pos)
    ELSE yearless_after_month(str, collect_month_and_validate(str, c.pos))

\* yearless_date.rs: parse_yearless_date_component(s, position)
parse_yearless_date_component(str, pos) ==
    yearless_hyphens(str, collect_codepoints(str, pos, {TOKEN_HYPHEN}))

parse_yearless_date(str) == parse_format(str, parse_yearless_date_component(str, 0)).val

\* a faulty variant: what stands after the time is not looked at
local_result_ignoring_rest(str, date, time) ==
    IF ~ IsSome(time.val) THEN time
    ELSE Ret(Some([date |-> date, time |-> time.val.val]), time.pos)

\* local_datetime.rs: parse_local_datetime, after the time was parsed
local_result(str, date, time) ==
    IF ~ IsSome(time.val) THEN time
    ELSE IF time.pos < len(str) THEN Ret(None, time.pos)
    ELSE Ret(Some([date |-> date, time |-> time.val.val]), time.pos)

\* local_datetime.rs: parse_local_datetime, after the date was parsed
local_after_date(str, date) ==
    IF ~ IsSome(date.val) THEN date
    ELSE IF ~ AtToken(str, date.pos, {TOKEN_T, TOKEN_SPACE}) THEN Ret(None, date.pos)
    ELSE local_result(str, date.val.val, parse_time_component(str, date.pos + 1))

\* local_datetime.rs: parse_local_datetime(s), with the cursor it stops at
parse_local_datetime_at(str) == local_after_date(str, parse_date_component(str, 0))

parse_local_datetime(str) == parse_local_datetime_at(str).val

\* global_datetime.rs: the instant built from the parsed parts (lines 52-59)
GlobalInstant(date, time, timezone_offset) ==
    [date |-> date,
     time |-> overflowing_sub_signed(time,
                  timezone_offset.minute + timezone_offset.hour * 60)[1]]

\* global_datetime.rs: parse_global_datetime, after the offset was parsed
global_result(str, date, time, tz) ==
    IF ~ IsSome(tz.val) THEN tz
    ELSE IF tz.pos < len(str) THEN Ret(None, tz.pos)
    ELSE Ret(Some(GlobalInstant(date, time, tz.val.val)), tz.pos)

\* a faulty variant: the cursor test after the time is off by one, so a
\* string that ends with the time is refused
global_after_time_at_end(str, date, time) ==
    IF ~ IsSome(time.val) THEN time
    ELSE IF time.pos >= len(str) THEN Ret(None, time.pos)
    ELSE global_result(str, date, time.val.val,
                       parse_timezone_offset_component(str, time.pos))

\* global_datetime.rs: parse_global_datetime, after the time was parsed
global_after_time(str, date, time) ==
    IF ~ IsSome(time.val) THEN time
    ELSE IF time.pos > len(str) THEN Ret(None, time.pos)
    ELSE global_result(str, date, time.val.val,
                       parse_timezone_offset_component(str, time.pos))

\* global_datetime.rs: parse_global_datetime, after the date was parsed
global_after_date(str, date) ==
    IF ~ IsSome(date.val) THEN date
    ELSE IF ~ AtToken(str, date.pos, {TOKEN_T, TOKEN_SPACE}) THEN Ret(None, date.pos)
    ELSE global_after_time(str, date.val.val, parse_time_component(str, date.pos + 1))

\* global_datetime.rs: parse_global_datetime(s), with the cursor it stops at
parse_global_datetime_at(str) == global_after_date(str, parse_date_component(str, 0))

parse_global_datetime(str) == parse_global_datetime_at(str).val

-----------------------------------------------------------------------------
(* The strings the calls are made on: well-formed values and their         *)
(* malformed neighbours (wrong digit counts, wrong separators, values out  *)
(* of range, characters left over).                                        *)

Chr(d) == CHOOSE c \in AsciiDigits : DigitVal(c) = d

RECURSIVE Digits(_, _)
\* the decimal digits of n, zero-padded to width w
Digits(n, w) == IF w = 0 THEN <<>> ELSE Digits(n \div 10, w - 1) \o <<Chr(n % 10)>>

RECURSIVE Repeat(_, _)
Repeat(c, k) == IF k = 0 THEN <<>> ELSE <<c>> \o Repeat(c, k - 1)

\* digit runs of up to MaxYearDigits digits around the limits of i32 and chrono
LongYears ==
    {Repeat("9", k) : k \in (MaxYearDigits - 1)..MaxYearDigits}
      \cup {<<"1">> \o Repeat("0", k - 1) : k \in (MaxYearDigits - 1)..MaxYearDigits}
      \cup {Digits(262142, 6), Digits(262143, 6), Digits(2011, 5)}
      \cup {<<"2", "1", "4", "7", "4", "8", "3", "6", "4", "7">>,
            <<"2", "1", "4", "7", "4", "8", "3", "6", "4", "8">>}

YearStrings ==
    {Digits(y, 4) : y \in {0, 4, 1900, 2000, 2004, 2007, 2011, 2012}}
      \cup {Digits(11, 3)} \cup LongYears

MonthStrings == {Digits(m, 2) : m \in {0, 2, 4, 11, 12, 13}} \cup {<<"1">>}

DayStrings == {Digits(d, 2) : d \in {0, 1, 28, 29, 30, 31, 32}} \cup {<<"1">>, Digits(18, 3)}

Trailing == {<<>>, <<"x">>, <<"U+00E9">>}

MonthInputs ==
    {y \o sep \o m \o t : y \in YearStrings, sep \in {<<"-">>, <<"/">>, <<>>},
                          m \in MonthStrings, t \in Trailing \cup {<<"-">>}}

DateInputs ==
    {y \o <<"-">> \o m \o sep \o d \o t :
        y \in YearStrings, m \in MonthStrings, sep \in {<<"-">>, <<"/">>},
        d \in DayStrings, t \in {<<>>, <<"x">>}}

\* seconds fractions of 1..MaxFracDigits digits
FracStrings ==
    UNION {{Repeat("9", k), <<"1">> \o Repeat("0", k - 1), Repeat("0", k - 1) \o <<"1">>,
            SubSeq(<<"1", "2", "3", "4", "5", "6", "7", "8", "9">>, 1, k)} :
           k \in 1..MaxFracDigits}

\* what may stand after the ':' that follows the minutes
SecondsStrings ==
    {sec \o f : sec \in {<<>>, <<"5">>, <<"0", "0">>, <<"5", "8">>, <<"5", "9">>, <<"6", "0">>,
                         <<"5", "9", "1">>},
                f \in {<<>>, <<".">>} \cup {<<".">> \o fr : fr \in FracStrings}
                      \cup {<<".", ".", "2", "9">>, <<".", "9", ".", "9">>}}

TimeInputs ==
    {h \o sep \o m \o rest \o t :
        h \in {Digits(12, 2), Digits(23, 2), Digits(24, 2), Digits(123, 3)},
        sep \in {<<":">>, <<"-">>},
        m \in {Digits(31, 2), Digits(60, 2), <<"5">>},
        rest \in {<<>>} \cup {<<":">> \o sec : sec \in SecondsStrings},
        t \in {<<>>, <<"x">>}}

OffsetStrings ==
    {<<>>, <<"Z">>, <<"z">>, <<"C">>}
      \cup {<<sign>> \o h \o sep \o m :
              sign \in {"+", "-"},
              h \in {Digits(0, 2), Digits(1, 2), Digits(7, 2), Digits(23, 2), Digits(24, 2), <<"1">>},
              sep \in {<<>>, <<":">>, <<"/">>},
              m \in {<<>>, Digits(0, 2), Digits(30, 2), Digits(59, 2), Digits(60, 2), <<"0">>,
                     Digits(0, 3)}}

OffsetInputs == {o \o t : o \in OffsetStrings, t \in Trailing \cup {<<"Z">>}}

WeekInputs ==
    {y \o sep \o w \o n \o t :
        y \in YearStrings \cup {<<>>, <<"4">>, <<"x">>},
        sep \in {<<"-">>, <<"_">>},
        w \in {<<"W">>, <<"w">>},
        n \in {Digits(k, 2) : k \in {0, 1, 47, 52, 53, 54}} \cup {<<"1">>, Digits(1, 3)},
        t \in {<<>>, <<"x">>}}

YearlessInputs ==
    {h \o m \o sep \o d \o t :
        h \in {Repeat("-", k) : k \in 0..3},
        m \in MonthStrings, sep \in {<<"-">>, <<"/">>}, d \in DayStrings, t \in Trailing}

\* the dates, times and offsets the composite formats are called on
SomeDates ==
    {<<"2", "0", "1", "1", "-", "1", "1", "-", "1", "8">>,
     <<"2", "0", "1", "2", "-", "0", "2", "-", "2", "9">>,
     <<"2", "0", "1", "1", "-", "1", "2", "-", "3", "1">>,
     <<"2", "0", "1", "2", "-", "0", "1", "-", "0", "1">>,
     <<"2", "0", "0", "4", "/", "1", "3", "/", "3", "1">>}

SomeTimes ==
    {<<"0", "0", ":", "0", "0">>,
     <<"2", "3", ":", "0", "0">>,
     <<"1", "4", ":", "5", "4">>,
     <<"1", "2", ":", "3", "1", ":", "5", "9", ".", "1", "2", "3">>,
     <<"2", "3", ":", "5", "9", ":", "5", "9", ".", "1", "2", "3", "4">>,
     <<"0", "0", ":", "3", "0", ":", "5">>,
     <<"1", "2", ":", "3", "1", ":">>,
     <<"2", "4", ":", "3", "1">>}

SomeOffsets ==
    {<<>>, <<"Z">>, <<"C">>}
      \cup {<<sign>> \o h \o sep \o m :
              sign \in {"+", "-"},
              h \in {Digits(7, 2), Digits(24, 2)},
              sep \in {<<>>, <<":">>},
              m \in {Digits(0, 2), Digits(30, 2), <<"0">>}}

DateTimeInputs ==
    {d \o delim \o tm \o o \o t :
        d \in SomeDates, delim \in {<<"T">>, <<" ">>, <<"/">>},
        tm \in SomeTimes, o \in SomeOffsets, t \in {<<>>, <<"x">>}}

LocalDateTimeInputs ==
    {d \o delim \o tm \o o \o t :
        d \in SomeDates, delim \in {<<"T">>, <<" ">>, <<"/">>, <<>>},
        tm \in SomeTimes, o \in {<<>>, <<"Z">>, <<"+", "0", "1", ":", "0", "0">>},
        t \in {<<>>, <<"x">>}}

\* what stands before the cursor of a component call
Prefixes ==
    UNION {[1..k -> {"x", ".", "U+00E9"}] : k \in 0..MaxStart}

\* the calls of parse_time_component: the string and the cursor
TimeComponentInputs ==
    {<<pre \o tm \o o, Len(pre)>> :
        pre \in Prefixes,
        tm \in SomeTimes \cup {<<"1", "2", ":", "3", "1", ":", "5", "9", ".", "9">>},
        o \in {<<>>, <<"Z">>, <<".">>, <<"+", "0", "1", ":", "0", "0">>}}

\* the calls of parse_timezone_offset_component: the string and the cursor
OffsetComponentInputs ==
    {<<pre \o o \o t, Len(pre)>> :
        pre \in Prefixes, o \in OffsetStrings, t \in {<<>>, <<"x">>}}

YearMonthArgs == (-3..3 \cup {2011, -2011}) \X (0..13)

TimeZoneOffsetArgs == {-24, -23, -7, 0, 7, 23, 24} \X {-30, -1, 0, 30, 59, 60}

\* the calls of parse_month_component and parse_date_component: the string
\* and the cursor
MonthComponentInputs ==
    {<<m, 0>> : m \in MonthInputs}
      \cup {<<pre \o d, Len(pre)>> : pre \in Prefixes, d \in SomeDates}

DateComponentInputs ==
    {<<d, 0>> : d \in DateInputs}
      \cup {<<pre \o d \o t, Len(pre)>> :
               pre \in Prefixes, d \in SomeDates, t \in {<<>>, <<"T">>, <<"-">>}}

YearlessDateArgs == (0..13) \X {0, 1, 28, 29, 30, 31, 32}

YearWeekArgs == {-1, 0, 1, 2004, 2011, 2014, 2020, 262142, 262143} \X {0, 1, 52, 53, 54}

\* the years week_number_of_year is called on (its callers pass years above
\* 0 only): four centuries around the present, the years of its tests and
\* the end of the range of chrono
Years == (1700..2100) \cup {1, 4, 100, 400, 2400, 262142, 262143}

WeekYearArgs == {<<y>> : y \in Years}

MaxDaysArgs ==
    (0..13) \X {0, 1, 4, 100, 400, 1900, 2000, 2020, 2021, 2022, 2023, 2024, 2028,
                2100, 2400, 3097}

\* the calls of parse_yearless_date_component: the string and the cursor
YearlessComponentInputs ==
    {<<y, 0>> : y \in YearlessInputs}
      \cup {<<pre \o y \o t, Len(pre)>> :
               pre \in Prefixes,
               y \in {<<"1", "1", "-", "1", "8">>, <<"-", "-", "0", "2", "-", "2", "9">>,
                      <<"-", "1", "2", "-", "3", "1">>},
               t \in {<<>>, <<"T">>}}

\* the predicates collect_codepoints and skip_codepoints are called with,
\* each given as the set of the characters it holds of: is_ascii_digit, the
\* seconds predicate of parse_time_component, and is_alphabetic
Predicates ==
    {AsciiDigits, AsciiDigits \cup {TOKEN_DOT}, {"a", "U+00E9", "U+20AC"}}

\* the strings collect_codepoints and skip_codepoints are called on: digits,
\* letters, a dot and characters of two and of three bytes
CodepointStrings ==
    UNION {[1..k -> {"1", "a", ".", "U+00E9", "U+20AC"}] : k \in 0..MaxChars}

\* the calls of collect_codepoints and skip_codepoints: the string, the
\* cursor (up to one past the last byte) and the predicate
CodepointCalls ==
    {<<str, pos, pred>> :
        str \in CodepointStrings, pos \in 0..(3 * MaxChars + 1), pred \in Predicates}

-----------------------------------------------------------------------------
(* The state machine.  Every function of the crate is a function of its    *)
(* arguments alone, so a behaviour is one call: the initial state holds    *)
(* the function to call, its arguments (a string and a cursor, or          *)
(* numbers) and the build of chrono; the step is the call; the state then  *)
(* records what the call returned and where it left the cursor.            *)

\* the calls on a whole string
StringCalls(f) ==
    CASE f = "parse_month" -> MonthInputs
      [] f = "parse_date" -> DateInputs
      [] f = "parse_yearless_date" -> YearlessInputs
      [] f = "parse_week" -> WeekInputs
      [] f = "parse_time" -> TimeInputs
      [] f = "parse_timezone_offset" -> OffsetInputs
      [] f = "parse_local_datetime" -> LocalDateTimeInputs
      [] f = "parse_global_datetime" -> DateTimeInputs

\* the calls of a component parser: the string and the cursor
ComponentCalls(f) ==
    CASE f = "parse_time_component" -> TimeComponentInputs
      [] f = "parse_timezone_offset_component" -> OffsetComponentInputs
      [] f = "parse_month_component" -> MonthComponentInputs
      [] f = "parse_date_component" -> DateComponentInputs
      [] f = "parse_yearless_date_component" -> YearlessComponentInputs

\* the calls of a constructor
ConstructorCalls(f) ==
    CASE f = "YearMonth::new_opt" -> YearMonthArgs
      [] f = "TimeZoneOffset::new_opt" -> TimeZoneOffsetArgs
      [] f = "YearlessDate::new_opt" -> YearlessDateArgs
      [] f = "YearWeek::new_opt" -> YearWeekArgs
      [] f = "week_number_of_year" -> WeekYearArgs
      [] f = "max_days_in_month_year" -> MaxDaysArgs

Init ==
    /\ pc = "call"
    /\ result = None
    /\ strictLeap \in BOOLEAN
    /\ \/ /\ fn \in {"parse_month", "parse_date", "parse_yearless_date", "parse_week",
                     "parse_time", "parse_timezone_offset", "parse_local_datetime",
                     "parse_global_datetime"}
          /\ s \in StringCalls(fn)
          /\ start = 0
          /\ args = <<>>
       \/ /\ fn \in {"parse_time_component", "parse_timezone_offset_component",
                     "parse_month_component", "parse_date_component",
                     "parse_yearless_date_component"}
          /\ \E call \in ComponentCalls(fn) : s = call[1] /\ start = call[2]
          /\ args = <<>>
       \/ /\ fn \in {"collect_codepoints", "skip_codepoints"}
          /\ \E call \in CodepointCalls :
                /\ call[2] <= len(call[1]) + 1
                /\ s = call[1] /\ start = call[2] /\ args = <<call[3]>>
       \/ /\ fn \in {"YearMonth::new_opt", "TimeZoneOffset::new_opt",
                     "YearlessDate::new_opt", "YearWeek::new_opt",
                     "week_number_of_year", "max_days_in_month_year"}
          /\ args \in ConstructorCalls(fn)
          /\ s = <<>>
          /\ start = 0
    /\ position = start

\* the called function returns r.val and leaves the cursor at r.pos
Return(r) ==
    /\ pc' = "return"
    /\ position' = r.pos
    /\ result' = r.val
    /\ UNCHANGED <<fn, s, start, args, strictLeap>>

ParseMonth ==
    /\ pc = "call" /\ fn = "parse_month"
    /\ Return(parse_format(s, parse_month_component(s, 0)))

ParseDate ==
    /\ pc = "call" /\ fn = "parse_date"
    /\ Return(parse_format(s, parse_date_component(s, 0)))

ParseYearlessDate ==
    /\ pc = "call" /\ fn = "parse_yearless_date"
    /\ Return(parse_format(s, parse_yearless_date_component(s, 0)))

ParseWeek ==
    /\ pc = "call" /\ fn = "parse_week"
    /\ Return(parse_week_at(s))

ParseTime ==
    /\ pc = "call" /\ fn = "parse_time"
    /\ Return(parse_format(s, parse_time_component(s, 0)))

ParseTimezoneOffset ==
    /\ pc = "call" /\ fn = "parse_timezone_offset"
    /\ Return(parse_format(s, parse_timezone_offset_component(s, 0)))

ParseLocalDatetime ==
    /\ pc = "call" /\ fn = "parse_local_datetime"
    /\ Return(parse_local_datetime_at(s))

ParseGlobalDatetime ==
    /\ pc = "call" /\ fn = "parse_global_datetime"
    /\ Return(parse_global_datetime_at(s))

ParseTimeComponent ==
    /\ pc = "call" /\ fn = "parse_time_component"
    /\ Return(parse_time_component(s, start))

ParseTimezoneOffsetComponent ==
    /\ pc = "call" /\ fn = "parse_timezone_offset_component"
    /\ Return(parse_timezone_offset_component(s, start))

YearMonthNewOpt ==
    /\ pc = "call" /\ fn = "YearMonth::new_opt"
    /\ Return(Ret(YearMonth_new_opt(args[1], args[2]), position))

TimeZoneOffsetNewOpt ==
    /\ pc = "call" /\ fn = "TimeZoneOffset::new_opt"
    /\ Return(Ret(TimeZoneOffset_new_opt(args[1], args[2]), position))

ParseMonthComponent ==
    /\ pc = "call" /\ fn = "parse_month_component"
    /\ Return(parse_month_component(s, start))

ParseDateComponent ==
    /\ pc = "call" /\ fn = "parse_date_component"
    /\ Return(parse_date_component(s, start))

YearlessDateNewOpt ==
    /\ pc = "call" /\ fn = "YearlessDate::new_opt"
    /\ Return(Ret(YearlessDate_new_opt(args[1], args[2]), position))

YearWeekNewOpt ==
    /\ pc = "call" /\ fn = "YearWeek::new_opt"
    /\ Return(Ret(YearWeek_new_opt(args[1], args[2]), position))

WeekNumberOfYear ==
    /\ pc = "call" /\ fn = "week_number_of_year"
    /\ Return(Ret(week_number_of_year(args[1]), position))

MaxDaysInMonthYear ==
    /\ pc = "call" /\ fn = "max_days_in_month_year"
    /\ Return(Ret(max_days_in_month_year(args[1], args[2]), position))

ParseYearlessDateComponent ==
    /\ pc = "call" /\ fn = "parse_yearless_date_component"
    /\ Return(parse_yearless_date_component(s, start))

CollectCodepoints ==
    /\ pc = "call" /\ fn = "collect_codepoints"
    /\ Return(collect_codepoints(s, start, args[1]))

\* skip_codepoints returns nothing: the result is the unit value
SkipCodepoints ==
    /\ pc = "call" /\ fn = "skip_codepoints"
    /\ Return(Ret(Some(<<>>), skip_codepoints(s, start, args[1])))

Next ==
    \/ ParseMonth
    \/ ParseDate
    \/ ParseYearlessDate
    \/ ParseWeek
    \/ ParseTime
    \/ ParseTimezoneOffset
    \/ ParseLocalDatetime
    \/ ParseGlobalDatetime
    \/ ParseTimeComponent
    \/ ParseTimezoneOffsetComponent
    \/ YearMonthNewOpt
    \/ TimeZoneOffsetNewOpt
    \/ ParseMonthComponent
    \/ ParseDateComponent
    \/ YearlessDateNewOpt
    \/ YearWeekNewOpt
    \/ WeekNumberOfYear
    \/ MaxDaysInMonthYear
    \/ ParseYearlessDateComponent
    \/ CollectCodepoints
    \/ SkipCodepoints

Spec == Init /\ [][Next]_vars

-----------------------------------------------------------------------------
(* What the properties below read off the written string, independently of *)
(* the parsers.                                                            *)

\* the call has returned from function f
Returned(f) == pc = "return" /\ fn = f

WholeStringParsers ==
    {"parse_month", "parse_date", "parse_yearless_date", "parse_week", "parse_time",
     "parse_timezone_offset", "parse_local_datetime", "parse_global_datetime"}

IsDigits(str) == \A i \in 1..Len(str) : str[i] \in AsciiDigits

RECURSIVE Value(_)
\* the number a short digit string denotes
Value(str) ==
    IF str = <<>> THEN 0
    ELSE Value(SubSeq(str, 1, Len(str) - 1)) * 10 + DigitVal(str[Len(str)])

RECURSIVE ModOf(_, _, _)
\* the number a digit string of any length denotes, modulo m
ModOf(str, m, acc) ==
    IF str = <<>> THEN acc ELSE ModOf(Tail(str), m, (acc * 10 + DigitVal(Head(str))) % m)

RECURSIVE Decimal(_)
\* the decimal digits of a natural number
Decimal(n) == IF n < 10 THEN <<Chr(n)>> ELSE Decimal(n \div 10) \o <<Chr(n % 10)>>

RECURSIVE StripZeros(_)
StripZeros(str) ==
    IF Len(str) > 1 /\ Head(str) = "0" THEN StripZeros(Tail(str)) ELSE str

\* the fields of a string laid out as YEAR-MM-DD
YearField(str) == SubSeq(str, 1, Len(str) - 6)
MonthField(str) == SubSeq(str, Len(str) - 4, Len(str) - 3)
DayField(str) == SubSeq(str, Len(str) - 1, Len(str))

WrittenLeapYear(year) ==
    ModOf(year, 400, 0) = 0 \/ (ModOf(year, 4, 0) = 0 /\ ModOf(year, 100, 0) # 0)

WrittenMaxDay(month, year) ==
    IF month \in {1, 3, 5, 7, 8, 10, 12} THEN 31
    ELSE IF month \in {4, 6, 9, 11} THEN 30
    ELSE IF WrittenLeapYear(year) THEN 29 ELSE 28

\* the string is YEAR-MM-DD: four or more digits of nonzero value, a month
\* in 1..12 and a day of that month in that year
WrittenDate(str) ==
    /\ Len(str) >= 10
    /\ IsDigits(YearField(str))
    /\ \E i \in 1..Len(YearField(str)) : YearField(str)[i] # "0"
    /\ str[Len(str) - 5] = "-"
    /\ str[Len(str) - 2] = "-"
    /\ IsDigits(MonthField(str))
    /\ Value(MonthField(str)) \in 1..12
    /\ IsDigits(DayField(str))
    /\ Value(DayField(str)) \in 1..WrittenMaxDay(Value(MonthField(str)), YearField(str))

\* the calendar day after and before a date
NextDay(date) ==
    IF date.day < DaysInMonth(date.year, date.month)
    THEN [year |-> date.year, month |-> date.month, day |-> date.day + 1]
    ELSE IF date.month < 12
         THEN [year |-> date.year, month |-> date.month + 1, day |-> 1]
         ELSE [year |-> date.year + 1, month |-> 1, day |-> 1]

PrevDay(date) ==
    IF date.day > 1
    THEN [year |-> date.year, month |-> date.month, day |-> date.day - 1]
    ELSE IF date.month > 1
         THEN [year |-> date.year, month |-> date.month - 1,
               day |-> DaysInMonth(date.year, date.month - 1)]
         ELSE [year |-> date.year - 1, month |-> 12, day |-> 31]

\* the local date, local time and offset written in a global date and time
LocalDate(str) == parse_date_component(str, 0)
LocalTime(str) == parse_time_component(str, LocalDate(str).pos + 1)
LocalOffset(str) == parse_timezone_offset_component(str, LocalTime(str).pos)

MsOfDay(time) ==
    ((time.hour * 60 + time.minute) * 60 + time.second) * 1000 + time.milli

\* the local time of day less the offset, in milliseconds from local midnight
UtcMs(str) ==
    MsOfDay(LocalTime(str).val.val)
      - (LocalOffset(str).val.val.hour * 60 + LocalOffset(str).val.val.minute) * 60000

UtcDate(str) ==
    IF UtcMs(str) < 0 THEN PrevDay(LocalDate(str).val.val)
    ELSE IF UtcMs(str) >= MS_PER_DAY THEN NextDay(LocalDate(str).val.val)
    ELSE LocalDate(str).val.val

UtcTime(str) ==
    [hour   |-> (UtcMs(str) % MS_PER_DAY) \div 3600000,
     minute |-> ((UtcMs(str) % MS_PER_DAY) \div 60000) % 60,
     second |-> ((UtcMs(str) % MS_PER_DAY) \div 1000) % 60,
     milli  |-> (UtcMs(str) % MS_PER_DAY) % 1000]

\* what stands after the ':' that follows the minutes of a time HH:MM:...
SecondsPart(str) == SubSeq(str, 7, Len(str))

\* two digits with a value of 0..59, then nothing or a '.' and fraction digits
WrittenSeconds(part) ==
    /\ Len(part) >= 2
    /\ IsDigits(SubSeq(part, 1, 2))
    /\ Value(SubSeq(part, 1, 2)) \in 0..59
    /\ \/ Len(part) = 2
       \/ /\ Len(part) >= 4
          /\ part[3] = TOKEN_DOT
          /\ IsDigits(SubSeq(part, 4, Len(part)))

\* the string is a time HH:MM:SS.f with a fraction f of more than three digits
WrittenLongFraction(str) ==
    /\ Len(str) >= 13
    /\ IsDigits(SubSeq(str, 1, 2)) /\ Value(SubSeq(str, 1, 2)) \in 0..23
    /\ str[3] = TOKEN_COLON
    /\ IsDigits(SubSeq(str, 4, 5)) /\ Value(SubSeq(str, 4, 5)) \in 0..59
    /\ str[6] = TOKEN_COLON
    /\ WrittenSeconds(SecondsPart(str))

\* the string starts with the sign of an offset
IsSignedOffset(str) == str # <<>> /\ Head(str) \in {TOKEN_PLUS, TOKEN_MINUS}

\* the four digits HHMM of a string laid out as sign HHMM or sign HH:MM
OffsetDigits(str) ==
    IF Len(str) = 5 /\ IsDigits(Tail(str)) THEN Some(Tail(str))
    ELSE IF /\ Len(str) = 6
            /\ str[4] = TOKEN_COLON
            /\ IsDigits(SubSeq(str, 2, 3))
            /\ IsDigits(SubSeq(str, 5, 6))
         THEN Some(SubSeq(str, 2, 3) \o SubSeq(str, 5, 6))
         ELSE None

WrittenOffset(str) ==
    /\ IsSignedOffset(str)
    /\ IsSome(OffsetDigits(str))
    /\ Value(SubSeq(OffsetDigits(str).val, 1, 2)) \in 0..23
    /\ Value(SubSeq(OffsetDigits(str).val, 3, 4)) \in 0..59

\* the same sign and digits in the other of the two layouts
OtherForm(str) ==
    IF Len(str) = 5
    THEN SubSeq(str, 1, 3) \o <<TOKEN_COLON>> \o SubSeq(str, 4, 5)
    ELSE SubSeq(str, 1, 3) \o SubSeq(str, 5, 6)

-----------------------------------------------------------------------------
(* The properties *)

\* C1: parse_global_datetime returns the instant obtained by subtracting the
\* offset's total minutes from the local date-time; when the subtraction
\* crosses midnight the date of the result rolls one day forward or backward
\* (stated for times of day without a leap second).
C1_GlobalDatetimeRollsDate ==
    (/\ Returned("parse_global_datetime")
     /\ IsSome(result)
     /\ LocalTime(s).val.val.milli < 1000)
        => /\ result.val.time = UtcTime(s)
           /\ result.val.date = UtcDate(s)

\* C2: every whole-string parser returns a value only when the grammar has
\* consumed the entire string: with characters left over it returns nothing.
C2_NothingLeftOver ==
    (pc = "return" /\ fn \in WholeStringParsers /\ IsSome(result))
        => position = len(s)

\* C3: every whole-string parser ends by returning a value or nothing, for
\* every input: it never aborts.
C3_NeverAborts ==
    (pc = "return" /\ fn \in WholeStringParsers) => result # Panic

\* C4: parse_date returns a date exactly for the strings YEAR-MM-DD (YEAR of
\* four or more digits and nonzero, MM in 1..12, DD a day of that month in
\* that year), with the year, month and day written; nothing for the others.
C4_ParseDateGrammar ==
    Returned("parse_date") =>
        IF WrittenDate(s)
        THEN /\ IsSome(result)
             /\ Decimal(result.val.year) = StripZeros(YearField(s))
             /\ result.val.month = Value(MonthField(s))
             /\ result.val.day = Value(DayField(s))
        ELSE result = None

\* C5: when a ':' follows the minutes, parse_time succeeds only if what
\* follows is a seconds part of exactly two digits with value 0..59,
\* optionally followed by a single '.' and fraction digits.
C5_SecondsTwoDigits ==
    (/\ Returned("parse_time")
     /\ IsSome(result)
     /\ Len(s) > 5
     /\ s[6] = TOKEN_COLON)
        => WrittenSeconds(SecondsPart(s))

\* C6: a seconds fraction of more than three digits is not rejected: parse_time
\* succeeds and its millisecond value is the first three fraction digits.
C6_FractionTruncated ==
    (Returned("parse_time") /\ WrittenLongFraction(s))
        => /\ IsSome(result)
           /\ result.val.milli = Value(SubSeq(s, 10, 12))

\* C7: every time of day returned by parse_time or parse_time_component has
\* hour 0..23, minute 0..59, second 0..59 and a sub-second part of 0..999 ms.
C7_TimeInRange ==
    (/\ pc = "return"
     /\ fn \in {"parse_time", "parse_time_component"}
     /\ IsSome(result))
        => /\ result.val.hour \in 0..23
           /\ result.val.minute \in 0..59
           /\ result.val.second \in 0..59
           /\ result.val.milli \in 0..999

\* C8: every offset returned by parse_timezone_offset or
\* parse_timezone_offset_component is one TimeZoneOffset::new_opt accepts:
\* hour in -23..23 and minute in 0..59, never negative.
C8_OffsetWithinNewOpt ==
    (/\ pc = "return"
     /\ fn \in {"parse_timezone_offset", "parse_timezone_offset_component"}
     /\ IsSome(result))
        => /\ result.val.hour \in -23..23
           /\ result.val.minute \in 0..59
           /\ TimeZoneOffset_new_opt(result.val.hour, result.val.minute) = result

\* C9: parse_timezone_offset accepts "Z" (zero offset, one character
\* consumed) and a sign followed by HHMM or HH:MM with HH in 0..23 and MM in
\* 0..59; the two layouts of the same digits give equal offsets; after a
\* sign, any other digit count, a missing ':' or an hour or minute out of
\* range gives nothing.
C9_OffsetGrammar ==
    Returned("parse_timezone_offset") =>
        /\ (s = <<TOKEN_Z>>) =>
               (result = Some(TimeZoneOffset_new(0, 0)) /\ position = 1)
        /\ IsSignedOffset(s) =>
               IF WrittenOffset(s)
               THEN /\ IsSome(result)
                    /\ result = parse_timezone_offset(OtherForm(s))
               ELSE result = None

\* C9 happens: a signed four-digit offset was parsed and accepted
C9_Witness ==
    /\ Returned("parse_timezone_offset")
    /\ WrittenOffset(s)
    /\ Len(s) = 5
    /\ Head(s) = TOKEN_MINUS
    /\ IsSome(result)

\* C10: YearMonth::new_opt(year, month) returns a value only when year > 0
\* and month is in 1..12, and nothing for every other pair of arguments.
C10_YearMonthPositiveYear ==
    Returned("YearMonth::new_opt") =>
        IF args[1] > 0 /\ args[2] \in 1..12
        THEN result = Some([year |-> args[1], month |-> args[2]])
        ELSE result = None

\* the fixed table of the longest months: February counts 29 days
TableMaxDay(month) ==
    IF month = 2 THEN 29 ELSE IF month \in {4, 6, 9, 11} THEN 30 ELSE 31

\* C11: YearlessDate::new_opt(month, day) returns a value only when month is
\* in 1..12 and day is between 1 and the table maximum of the month; it
\* returns nothing for every other pair, day 0 included.
C11_YearlessDateDayFromOne ==
    Returned("YearlessDate::new_opt") =>
        IF args[1] \in 1..12 /\ args[2] \in 1..TableMaxDay(args[1])
        THEN result = Some([month |-> args[1], day |-> args[2]])
        ELSE result = None

\* the number of days of the proleptic Gregorian calendar before January 1
\* of a year; 0001-01-01 is a Monday
DaysBefore(year) ==
    365 * (year - 1) + ((year - 1) \div 4) - ((year - 1) \div 100) + ((year - 1) \div 400)

\* the weekday of January 1: 0 is Sunday, 3 Wednesday, 4 Thursday
Jan1Weekday(year) == (DaysBefore(year) + 1) % 7

GregorianLeap(year) == year % 400 = 0 \/ (year % 4 = 0 /\ year % 100 # 0)

\* the number of weeks of a week-year: 53 when January 1 is a Thursday, or
\* a Wednesday of a leap year
WeeksOf(year) ==
    IF Jan1Weekday(year) = 4 \/ (Jan1Weekday(year) = 3 /\ GregorianLeap(year))
    THEN 53 ELSE 52

\* the fields of a string laid out as YEAR-Www
WeekYearField(str) == SubSeq(str, 1, Len(str) - 4)
WeekField(str) == SubSeq(str, Len(str) - 1, Len(str))

\* the weeks of a written year of any length: the calendar repeats every 400
\* years
WrittenWeeks(year) == WeeksOf(400 + ModOf(year, 400, 0))

\* the string is one or more digits of value above 0, "-W" and two digits
\* of a week of that year
WrittenWeek(str) ==
    /\ Len(str) >= 5
    /\ IsDigits(WeekYearField(str))
    /\ \E i \in 1..Len(WeekYearField(str)) : WeekYearField(str)[i] # "0"
    /\ str[Len(str) - 3] = TOKEN_HYPHEN
    /\ str[Len(str) - 2] = TOKEN_ABBR_WEEK
    /\ IsDigits(WeekField(str))
    /\ Value(WeekField(str)) \in 1..WrittenWeeks(WeekYearField(str))

\* C12: parse_week returns a value exactly for the strings made of one or
\* more digits with value above 0, '-', 'W' and two digits w with
\* 1 <= w <= number of weeks of the year; the year and week returned are the
\* numbers written and the result equals YearWeek::new_opt(year, w); every
\* other string gives nothing.
C12_ParseWeekGrammar ==
    Returned("parse_week") =>
        IF WrittenWeek(s)
        THEN /\ IsSome(result)
             /\ Decimal(result.val.year) = StripZeros(WeekYearField(s))
             /\ result.val.week = Value(WeekField(s))
             /\ result = YearWeek_new_opt(result.val.year, Value(WeekField(s)))
        ELSE result = None

\* C13: week_number_of_year(year) returns 53 exactly when January 1 of the
\* year is a Thursday, or a Wednesday and the year is a leap year, and 52
\* for every other year.
C13_WeekNumberRule ==
    Returned("week_number_of_year") => result = Some(WeeksOf(args[1]))

\* the number of leading hyphens of a string
LeadingHyphens(str) ==
    CHOOSE h \in 0..Len(str) :
        /\ \A i \in 1..h : str[i] = TOKEN_HYPHEN
        /\ (h = Len(str) \/ str[h + 1] # TOKEN_HYPHEN)

\* the string is no or two hyphens, a month MM in 1..12, '-' and a day DD of
\* that month by the fixed table
WrittenYearless(str) ==
    /\ LeadingHyphens(str) \in {0, 2}
    /\ Len(str) = LeadingHyphens(str) + 5
    /\ IsDigits(SubSeq(str, Len(str) - 4, Len(str) - 3))
    /\ Value(SubSeq(str, Len(str) - 4, Len(str) - 3)) \in 1..12
    /\ str[Len(str) - 2] = TOKEN_HYPHEN
    /\ IsDigits(SubSeq(str, Len(str) - 1, Len(str)))
    /\ Value(SubSeq(str, Len(str) - 1, Len(str)))
           \in 1..TableMaxDay(Value(SubSeq(str, Len(str) - 4, Len(str) - 3)))

\* C14: parse_yearless_date accepts exactly the strings made of no or two
\* leading hyphens, a two-digit month in 1..12, one '-' and a two-digit day
\* between 1 and the table maximum of the month; one hyphen, three or more
\* hyphens and every other deviation give nothing.
C14_YearlessGrammar ==
    Returned("parse_yearless_date") =>
        IF WrittenYearless(s)
        THEN result = Some([month |-> Value(SubSeq(s, Len(s) - 4, Len(s) - 3)),
                            day |-> Value(SubSeq(s, Len(s) - 1, Len(s)))])
        ELSE result = None

\* C14 happens: a date with two leading hyphens was accepted
C14_Witness ==
    /\ Returned("parse_yearless_date")
    /\ WrittenYearless(s)
    /\ LeadingHyphens(s) = 2
    /\ IsSome(result)

\* the string is four or more digits of nonzero value, '-' and a month MM
\* in 1..12
WrittenMonth(str) ==
    /\ Len(str) >= 7
    /\ IsDigits(SubSeq(str, 1, Len(str) - 3))
    /\ \E i \in 1..(Len(str) - 3) : str[i] # "0"
    /\ str[Len(str) - 2] = TOKEN_HYPHEN
    /\ IsDigits(SubSeq(str, Len(str) - 1, Len(str)))
    /\ Value(SubSeq(str, Len(str) - 1, Len(str))) \in 1..12

\* C15: parse_month accepts exactly the strings made of four or more digits
\* with nonzero value, '-' and two digits of a month in 1..12; the YearMonth
\* returned has a nonzero year and a month in 1..12; every other string
\* gives nothing.
C15_ParseMonthGrammar ==
    Returned("parse_month") =>
        IF WrittenMonth(s)
        THEN /\ IsSome(result)
             /\ result.val.year # 0
             /\ result.val.month \in 1..12
        ELSE result = None

\* the first 'T' or space of a string, 0 when there is none
DelimiterAt(str) ==
    IF \E i \in 1..Len(str) : str[i] \in {TOKEN_T, TOKEN_SPACE}
    THEN CHOOSE i \in 1..Len(str) :
             /\ str[i] \in {TOKEN_T, TOKEN_SPACE}
             /\ \A k \in 1..(i - 1) : str[k] \notin {TOKEN_T, TOKEN_SPACE}
    ELSE 0

\* what stands before and after the delimiter
DatePart(str) == SubSeq(str, 1, DelimiterAt(str) - 1)
AfterDelimiter(str) == SubSeq(str, DelimiterAt(str) + 1, Len(str))

\* the string is a valid date, 'T' or a space, and a valid time
WrittenLocal(str) ==
    /\ DelimiterAt(str) > 0
    /\ IsSome(parse_date(DatePart(str)))
    /\ IsSome(parse_time(AfterDelimiter(str)))

\* the date and the time of day written in such a string
WrittenDateTime(str) ==
    [date |-> parse_date(DatePart(str)).val,
     time |-> parse_time(AfterDelimiter(str)).val]

WithoutZ(str) ==
    IF str # <<>> /\ str[Len(str)] = TOKEN_Z THEN SubSeq(str, 1, Len(str) - 1) ELSE str

WrittenGlobal(str) ==
    /\ DelimiterAt(str) > 0
    /\ IsSome(parse_date(DatePart(str)))
    /\ \E j \in 0..Len(AfterDelimiter(str)) :
           /\ IsSome(parse_time(SubSeq(AfterDelimiter(str), 1, j)))
           /\ IsSome(parse_timezone_offset(
                  SubSeq(AfterDelimiter(str), j + 1, Len(AfterDelimiter(str)))))

\* C18: parse_global_datetime returns nothing whenever a part is invalid: the
\* date, the delimiter, the time, the offset, or a character after the time
\* that starts no valid offset.
C18_InvalidPartRejected ==
    (Returned("parse_global_datetime") /\ ~ WrittenGlobal(s)) => result = None

\* C19: max_days_in_month_year(month, year) returns 31 for months 1, 3, 5, 7,
\* 8, 10, 12, 30 for months 4, 6, 9, 11, for month 2 29 exactly when the
\* year is divisible by 400, or by 4 and not by 100, and else 28; nothing
\* for a month outside 1..12.
C19_MaxDaysTable ==
    Returned("max_days_in_month_year") =>
        result = IF args[1] \notin 1..12 THEN None
                 ELSE IF args[1] = 2
                      THEN Some(IF GregorianLeap(args[2]) THEN 29 ELSE 28)
                      ELSE Some(TableMaxDay(args[1]))

\* C19 happens: February of a century year that is no leap year
C19_Witness ==
    /\ Returned("max_days_in_month_year")
    /\ args = <<2, 1900>>
    /\ result = Some(28)

\* C20: for every string parse_date_component accepts from cursor 0,
\* parse_month_component from cursor 0 succeeds on the same string, yields
\* the year and month of the date, and stops at the hyphen before the day.
C20_DateExtendsMonth ==
    (Returned("parse_date_component") /\ start = 0 /\ IsSome(result))
        => /\ IsSome(parse_month_component(s, 0).val)
           /\ parse_month_component(s, 0).val.val
                  = [year |-> result.val.year, month |-> result.val.month]
           /\ parse_month_component(s, 0).pos = position - 3
           /\ s[parse_month_component(s, 0).pos + 1] = TOKEN_HYPHEN

\* C20 happens: a date was accepted from cursor 0
C20_Witness ==
    /\ Returned("parse_date_component")
    /\ start = 0
    /\ IsSome(result)
    /\ result.val.month # result.val.day

-----------------------------------------------------------------------------
(* What the properties of the component parsers and of the cursor read off *)
(* the written string.                                                     *)

\* the characters of str from the 0-based index p on
From(str, p) == SubSeq(str, p + 1, Len(str))

\* the characters of str from the 0-based index p up to, not including, q
Between(str, p, q) == SubSeq(str, p + 1, q)

\* the length of the longest run of characters of the set chars that starts
\* at the 0-based index p of str
RunLength(str, p, chars) ==
    IF p >= Len(str) THEN 0
    ELSE (CHOOSE q \in p..Len(str) :
             /\ \A k \in (p + 1)..q : str[k] \in chars
             /\ (q = Len(str) \/ str[q + 1] \notin chars)) - p

\* a digit run that does not denote zero
NonZeroDigits(str) == IsDigits(str) /\ \E k \in 1..Len(str) : str[k] # "0"

\* str starts with a year of four or more digits that is not zero, a
\* hyphen, and a month of exactly two digits between 01 and 12
StartsWithYearMonth(str) ==
    LET n == RunLength(str, 0, AsciiDigits)
    IN  /\ n >= 4
        /\ NonZeroDigits(Between(str, 0, n))
        /\ Len(str) >= n + 3
        /\ str[n + 1] = "-"
        /\ RunLength(str, n + 1, AsciiDigits) = 2
        /\ Value(Between(str, n + 1, n + 3)) \in 1..12

\* C21: parse_month_component accepts a year of any number of digits that is
\* at least four, as long as the year is not zero and a hyphen and a valid
\* two-digit month follow.
C21_YearAnyDigitCount ==
    (Returned("parse_month_component") /\ start = 0 /\ StartsWithYearMonth(s))
        => IsSome(result)

\* the character of str at the 0-based index q, if there is one, is not in chars
NotFollowedBy(str, q, chars) == q >= Len(str) \/ str[q + 1] \notin chars

\* the fragments the component parsers match: a year of four or more digits,
\* '-' and two digits; that followed by '-' and two digits; two digits, '-'
\* and two digits, after two hyphens or none; two digits, ':' and two
\* digits, then possibly ':' and a run of digits and dots; 'Z', or a sign
\* and HHMM or HH:MM, or nothing
MonthFragment(frag) ==
    LET n == RunLength(frag, 0, AsciiDigits)
    IN  /\ n >= 4
        /\ Len(frag) = n + 3
        /\ frag[n + 1] = "-"
        /\ IsDigits(Between(frag, n + 1, n + 3))

DateFragment(frag) ==
    /\ Len(frag) >= 3
    /\ MonthFragment(Between(frag, 0, Len(frag) - 3))
    /\ frag[Len(frag) - 2] = "-"
    /\ IsDigits(Between(frag, Len(frag) - 2, Len(frag)))

YearlessFragment(frag) ==
    LET h == RunLength(frag, 0, {"-"})
    IN  /\ h \in {0, 2}
        /\ Len(frag) = h + 5
        /\ IsDigits(Between(frag, h, h + 2))
        /\ frag[h + 3] = "-"
        /\ IsDigits(Between(frag, h + 3, h + 5))

TimeFragment(frag) ==
    /\ Len(frag) >= 5
    /\ IsDigits(Between(frag, 0, 2))
    /\ frag[3] = ":"
    /\ IsDigits(Between(frag, 3, 5))
    /\ Len(frag) > 5 => /\ frag[6] = ":"
                        /\ \A k \in 7..Len(frag) : frag[k] \in AsciiDigits \cup {"."}

OffsetFragment(frag) ==
    \/ frag = <<>>
    \/ frag = <<"Z">>
    \/ /\ Len(frag) = 5
       /\ frag[1] \in {"+", "-"}
       /\ IsDigits(Between(frag, 1, 5))
    \/ /\ Len(frag) = 6
       /\ frag[1] \in {"+", "-"}
       /\ IsDigits(Between(frag, 1, 3))
       /\ frag[4] = ":"
       /\ IsDigits(Between(frag, 4, 6))

\* the fragment of str between the cursors p and q is one the component
\* parser f matches, and the character at q is the first one that is not
\* part of it
Matched(f, str, p, q) ==
    LET frag == Between(str, p, q)
    IN  CASE f = "parse_month_component" ->
               MonthFragment(frag) /\ NotFollowedBy(str, q, AsciiDigits)
          [] f = "parse_date_component" ->
               DateFragment(frag) /\ NotFollowedBy(str, q, AsciiDigits)
          [] f = "parse_yearless_date_component" ->
               YearlessFragment(frag) /\ NotFollowedBy(str, q, AsciiDigits)
          [] f = "parse_time_component" ->
               /\ TimeFragment(frag)
               /\ IF Len(frag) = 5
                  THEN NotFollowedBy(str, q, AsciiDigits \cup {":"})
                  ELSE NotFollowedBy(str, q, AsciiDigits \cup {"."})
          [] f = "parse_timezone_offset_component" ->
               /\ OffsetFragment(frag)
               /\ IF frag = <<>>
                  THEN NotFollowedBy(str, q, {"Z", "+", "-"})
                  ELSE frag = <<"Z">> \/ NotFollowedBy(str, q, AsciiDigits)

ComponentParsers ==
    {"parse_month_component", "parse_date_component", "parse_yearless_date_component",
     "parse_time_component", "parse_timezone_offset_component"}

\* C22: whenever a component parser succeeds from the cursor p, the cursor
\* afterwards is p plus the number of characters of the fragment it matched:
\* the characters between the two cursors are a fragment of the parser's
\* format and the character at the cursor is the first one not part of it.
C22_CursorAfterFragment ==
    (pc = "return" /\ fn \in ComponentParsers /\ IsSome(result))
        => /\ start <= position
           /\ position <= Len(s)
           /\ Matched(fn, s, start, position)

\* a date was matched between a character before it and a 'T' after it
C22_Witness ==
    /\ Returned("parse_date_component")
    /\ IsSome(result)
    /\ start = 1
    /\ position = 11
    /\ position < Len(s)

\* C23: collect_codepoints(s, pos, predicate) returns the longest run of
\* characters from pos on that all satisfy the predicate and advances pos by
\* the number of characters returned; on the empty string or with pos at or
\* beyond the length it returns the empty string and leaves pos unchanged.
C23_CollectMaximalRun ==
    Returned("collect_codepoints")
        => /\ result = Some(Between(s, start, start + RunLength(s, start, args[1])))
           /\ position = start + RunLength(s, start, args[1])

\* str holds a character of more than one byte
HasMultiByte(str) == \E k \in 1..Len(str) : len_utf8(str[k]) > 1

\* C24: the cursor is a character index: on a string that holds multi-byte
\* characters collect_codepoints, called with the character index pos,
\* returns the characters from pos up to the first one failing the
\* predicate, advances pos by their number and does not abort.
C24_CursorIsCharacterIndex ==
    (Returned("collect_codepoints") /\ HasMultiByte(s) /\ start <= Len(s))
        => /\ result # Panic
           /\ result = Some(Between(s, start, start + RunLength(s, start, args[1])))
           /\ position = start + RunLength(s, start, args[1])

\* C25: when the character at the cursor is none of 'Z', '+' and '-', the
\* end of the string included, parse_timezone_offset_component returns the
\* zero offset and leaves the cursor where it was; so parse_timezone_offset
\* of the empty string is the zero offset.
C25_NoOffsetIsZero ==
    /\ (Returned("parse_timezone_offset_component")
          /\ NotFollowedBy(s, start, {"Z", "+", "-"}))
        => (result = Some(TimeZoneOffset_new(0, 0)) /\ position = start)
    /\ (Returned("parse_timezone_offset") /\ s = <<>>)
        => result = Some(TimeZoneOffset_new(0, 0))

\* the component parser was called with the cursor on a character that
\* starts no offset
C25_Witness ==
    /\ Returned("parse_timezone_offset_component")
    /\ start = 1
    /\ start < Len(s)
    /\ s[start + 1] \notin {"Z", "+", "-"}
    /\ result = Some(TimeZoneOffset_new(0, 0))
    /\ position = start

WrittenShortFraction(str) ==
    /\ Len(str) \in {10, 11}
    /\ IsDigits(SubSeq(str, 1, 2)) /\ Value(SubSeq(str, 1, 2)) \in 0..23
    /\ str[3] = TOKEN_COLON
    /\ IsDigits(SubSeq(str, 4, 5)) /\ Value(SubSeq(str, 4, 5)) \in 0..59
    /\ str[6] = TOKEN_COLON
    /\ WrittenSeconds(SecondsPart(str))

\* C27: a seconds fraction of one or two digits is taken as it stands: the
\* millisecond value is the integer the digits denote, with no padding on
\* the right ('.9' is 9 milliseconds).
C27_ShortFractionAsWritten ==
    (Returned("parse_time") /\ WrittenShortFraction(s))
        => /\ IsSome(result)
           /\ result.val.second = Value(SubSeq(s, 7, 8))
           /\ result.val.milli = Value(SubSeq(s, 10, Len(s)))

\* a time with the one-digit fraction '.9' was parsed to 9 milliseconds
C27_Witness ==
    /\ Returned("parse_time")
    /\ WrittenShortFraction(s)
    /\ SubSeq(s, 9, Len(s)) = <<".", "9">>
    /\ IsSome(result)
    /\ result.val.milli = 9

\* C28: the result of parse_time_component(s, p) and the advance of its
\* cursor depend only on the characters of s at index p and later: they are
\* those of the call on these characters alone, from the cursor 0.
C28_TimeIgnoresWhatPrecedes ==
    Returned("parse_time_component")
        => /\ result = parse_time_component(From(s, start), 0).val
           /\ position - start = parse_time_component(From(s, start), 0).pos

\* the minutes from local midnight of the written local time less the written
\* offset, taken modulo 24 hours
ShiftedMinutes(str) ==
    ((LocalTime(str).val.val.hour * 60 + LocalTime(str).val.val.minute)
       - (LocalOffset(str).val.val.hour * 60 + LocalOffset(str).val.val.minute)) % 1440

\* C29: for every string parse_global_datetime accepts, the time of day of
\* the result is the parsed local time of day less the offset (hour * 60 +
\* minute minutes), taken modulo 24 hours, with the seconds and the
\* milliseconds of the input preserved.
C29_TimeOfDayShifted ==
    (Returned("parse_global_datetime") /\ IsSome(result))
        => result.val.time = [hour   |-> ShiftedMinutes(s) \div 60,
                              minute |-> ShiftedMinutes(s) % 60,
                              second |-> LocalTime(s).val.val.second,
                              milli  |-> LocalTime(s).val.val.milli]

\* the functions that move a cursor over a string
CursorFunctions ==
    WholeStringParsers \cup ComponentParsers \cup {"collect_codepoints", "skip_codepoints"}

\* C30: across the calls of collect_codepoints and skip_codepoints and the
\* single-character delimiter steps the parsers make on one string, from a
\* cursor that is not greater than the length of the string, the cursor
\* never decreases and never exceeds the length of the string (neither
\* the number of its characters nor, from a cursor within the bytes, the
\* number of its bytes).
C30_CursorWithinString ==
    (pc = "return" /\ fn \in CursorFunctions)
        => /\ start <= len(s) => (start <= position /\ position <= len(s))
           /\ start <= Len(s) => position <= Len(s)

\* a run that reaches the end of a string with a multi-byte character was
\* skipped from a cursor inside the string
C30_Witness ==
    /\ Returned("skip_codepoints")
    /\ HasMultiByte(s)
    /\ start > 0
    /\ position > start
    /\ position = Len(s)

=============================================================================
